---- MODULE Spec2Model ----
(***************************************************************************)
(* Model of ical2orgpy.py: the occurrence generators (SingleEvent,         *)
(* RecurringEvent), the exception filter (filter_events) and the           *)
(* deduplicating emitter (Convertor.__call__).                             *)
(*                                                                         *)
(* Time.  An instant is a number of seconds since the midnight (UTC) that  *)
(* starts day 0.  A timezone-aware datetime is a record                    *)
(*   [utc |-> instant, off |-> utc offset of its tzinfo, zone |-> zone];   *)
(* Python compares, subtracts and hashes aware datetimes by instant, and   *)
(* strftime prints the wall clock utc + off.                               *)
(* A zone is a pytz zone: pytz.timezone(name) carries the zone's first     *)
(* (LMT) offset, which is what datetime.replace(tzinfo=zone) attaches;     *)
(* astimezone returns a datetime whose tzinfo is already the zone object   *)
(* unchanged, and otherwise, like normalize, picks the offset in force at  *)
(* the instant.  The tzinfo objects of a zone are told apart by offset.    *)
(*                                                                         *)
(* Text.  strftime results are records of the printed fields; the md5 of   *)
(* the fixed-width "start end uid" text is the triple itself (the text is  *)
(* an injective encoding of the triple, md5 taken as collision-free).      *)
(***************************************************************************)
EXTENDS Integers, Sequences, FiniteSets, TLC

VARIABLES
    tz,                 \* Convertor.tz
    localzone,          \* the local timezone of the process
    emails,             \* Convertor.emails
    include_location,   \* Convertor.include_location
    start,              \* __call__: start = now - days
    end,                \* __call__: end = now + days
    pc,                 \* position in __call__ / outcome of the run
    n,                  \* components taken from cal.walk() so far
    cur,                \* comp of the current loop iteration
    summary,            \* headline text computed for cur
    pending,            \* occurrences of cur not yet iterated
    gen,                \* what generate_events returned for cur
    hashes,             \* Convertor.hashes
    out,                \* what was written to fh_w: one sequence of lines
                        \* per record started
    diag,               \* lines printed to stdout, each with the number of
                        \* the component that caused it
    log                 \* history: one entry per occurrence that reached
                        \* line 223, with the emitter's decision

vars == <<tz, localzone, emails, include_location, start, end, pc, n, cur, summary,
          pending, gen, hashes, out, diag, log>>

----------------------------------------------------------------------------
(* Bounds of the model *)

MaxComps == 2       \* components in one calendar
MaxDay == 2         \* all-day DTSTART dates are days 1..MaxDay
MaxCount == 2       \* COUNT of a recurrence rule, 0 meaning no COUNT
MaxInterval == 2    \* INTERVAL of a recurrence rule
MaxWinDays == 2     \* --days

(* Program constants *)
SecPerMin == 60
SecPerDay == 86400

Hour == 60 * SecPerMin

----------------------------------------------------------------------------
(* Zones *)

UTCZone == [name |-> "UTC", lmt |-> 0, std |-> 0, dst |-> 0,
            dstFrom |-> 0, dstTo |-> 0]

\* A zone with an LMT offset of -0:15 (as Europe/Madrid in pytz), standard
\* time UTC+1 and daylight time UTC+2 from 01:00 UTC of day 2 on.
DstZone == [name |-> "Europe/Madrid", lmt |-> 0 - 15 * SecPerMin,
            std |-> Hour, dst |-> 2 * Hour,
            dstFrom |-> 2 * SecPerDay + Hour, dstTo |-> 400 * SecPerDay]

\* A zone west of Greenwich (as America/New_York in pytz: LMT -4:56,
\* standard time UTC-5), with no transition in the days modelled.
WestZone == [name |-> "America/New_York", lmt |-> 0 - (4 * Hour + 56 * SecPerMin),
             std |-> 0 - 5 * Hour, dst |-> 0 - 4 * Hour,
             dstFrom |-> 100 * SecPerDay, dstTo |-> 300 * SecPerDay]

Zones == {UTCZone, DstZone, WestZone}

\* The local timezones of the process that runs the conversion
LocalZones == {UTCZone, WestZone}

UtcOffset(zone, utc) ==
    IF zone.dstFrom <= utc /\ utc < zone.dstTo THEN zone.dst ELSE zone.std

Aware(utc, zone) == [utc |-> utc, off |-> UtcOffset(zone, utc), zone |-> zone]

\* datetime.astimezone(tz): self when self.tzinfo is tz (the zone object
\* itself, which carries the LMT offset), else tz.fromutc of the instant
astimezone(dt, zone) ==
    IF dt.zone = zone /\ dt.off = zone.lmt THEN dt
    ELSE [utc |-> dt.utc, off |-> UtcOffset(zone, dt.utc), zone |-> zone]

\* astimezone of a naive datetime: its wall clock is read in the process's
\* local zone
naive_astimezone(wall, local, zone) ==
    LET u == wall - local.std
        utc == IF UtcOffset(local, u) = local.std THEN u ELSE wall - local.dst
    IN [utc |-> utc, off |-> UtcOffset(zone, utc), zone |-> zone]

replace_tzinfo(wall, zone) ==
    [utc |-> wall - zone.lmt, off |-> zone.lmt, zone |-> zone]

\* aware datetime + timedelta: wall-clock arithmetic under the same tzinfo
plus(dt, delta) == [dt EXCEPT !.utc = @ + delta]

\* pytz tzinfo.normalize: same instant, the offset in force at it
normalize(dt) == [dt EXCEPT !.off = UtcOffset(dt.zone, dt.utc)]

Wall(dt) == dt.utc + dt.off

----------------------------------------------------------------------------
(* Property values of a component *)

None == [kind |-> "none", v |-> 0]
Date(d) == [kind |-> "date", v |-> d]           \* VALUE=DATE, day d
Naive(w) == [kind |-> "naive", v |-> w]         \* floating date-time
AwareZ(u) == [kind |-> "aware", v |-> u]        \* date-time in UTC ("Z")
Delta(s) == [kind |-> "delta", v |-> s]         \* DURATION of s seconds

Absent == "<absent>"

NoRule == [kind |-> "none", interval |-> 0, count |-> 0]
BadRule == [kind |-> "bad", interval |-> 0, count |-> 0]
Daily(i, c) == [kind |-> "daily", interval |-> i, count |-> c]

----------------------------------------------------------------------------
(* Formatting *)

strftime_datetime(dt) ==
    [day |-> Wall(dt) \div SecPerDay,
     hm |-> (Wall(dt) % SecPerDay) \div SecPerMin]

strftime_date(dt) == [day |-> Wall(dt) \div SecPerDay]

org_datetime(dt, zone) == strftime_datetime(astimezone(dt, zone))

org_date(dt, zone) == strftime_date(astimezone(dt, zone))

format_datetime(dt, zone) == strftime_datetime(astimezone(dt, zone))

get_datetime(dt, zone) ==
    CASE dt.kind = "aware" -> Aware(dt.v, UTCZone)
      [] dt.kind = "naive" -> replace_tzinfo(dt.v, zone)
      [] dt.kind = "date" -> astimezone(Aware(dt.v * SecPerDay, UTCZone), zone)

\* Mutant: the original id left out of the hashed text
generate_id_no_uid(start_date, end_date, uid, zone) ==
    <<format_datetime(start_date, zone), format_datetime(end_date, zone), "">>

generate_id(start_date, end_date, uid, zone) ==
    <<format_datetime(start_date, zone), format_datetime(end_date, zone), uid>>

----------------------------------------------------------------------------
(* Exception filter *)

\* lines 82-88: an attendee with PARTSTAT=DECLINED whose CN is in emails
declined(comp, mails) ==
    \E i \in 1..Len(comp.ATTENDEE) :
        /\ comp.ATTENDEE[i].partstat = "DECLINED"
        /\ comp.ATTENDEE[i].cn \in mails

\* lines 89-95 and 122-129: the EXDATE values as a set of datetimes, which
\* Python keys by instant
exdates(comp, zone) == {get_datetime(x, zone).utc : x \in comp.EXDATE}

filter_events(events, comp, zone, mails) ==
    IF declined(comp, mails) THEN <<>>
    ELSE LET exclude == exdates(comp, zone)
         IN SelectSeq(events, LAMBDA ev : ev.utc \notin exclude)

----------------------------------------------------------------------------
(* Recurrence expansion (dateutil): rrulestr, rruleset.exdate, between *)

\* The instants of a FREQ=DAILY rule anchored at dtstart, without its
\* exdates, strictly between after and before (between(), inc=False), in
\* ascending order.  COUNT counts the rule's instants before exclusion.
\* Mutant: between(..., inc=True) and the bounds taken inclusively
rrule_between_inclusive(rule, dtstart, exclude, after, before) ==
    IF rule.kind # "daily" THEN <<>>
    ELSE LET step == rule.interval * SecPerDay
             span == before - dtstart.utc
             upto == IF span < 0 THEN 0 ELSE span \div step + 1
             cnt == IF rule.count > 0 /\ rule.count < upto
                    THEN rule.count ELSE upto
             all == [k \in 1..cnt |-> plus(dtstart, (k - 1) * step)]
         IN SelectSeq(all, LAMBDA c : /\ c.utc >= after
                                      /\ c.utc <= before
                                      /\ c.utc \notin exclude)

rrule_between(rule, dtstart, exclude, after, before) ==
    IF rule.kind # "daily" THEN <<>>
    ELSE LET step == rule.interval * SecPerDay
             span == before - dtstart.utc
             upto == IF span <= 0 THEN 0 ELSE (span - 1) \div step + 1
             cnt == IF rule.count > 0 /\ rule.count < upto
                    THEN rule.count ELSE upto
             all == [k \in 1..cnt |-> plus(dtstart, (k - 1) * step)]
         IN SelectSeq(all, LAMBDA c : /\ c.utc > after
                                      /\ c.utc < before
                                      /\ c.utc \notin exclude)

Reverse(s) == [i \in 1..Len(s) |-> s[Len(s) + 1 - i]]

----------------------------------------------------------------------------
(* Occurrence generators.  Each returns the sequence its iterator yields. *)

\* Mutant: __next__ stops while one occurrence is still in the list
RecurringEvent_leaves_one(comp, timeframe_start, timeframe_end, zone) ==
    LET ev_start == get_datetime(comp.DTSTART, zone)
        ev_end == IF comp.DTEND.kind = "none" THEN ev_start
                  ELSE get_datetime(comp.DTEND, zone)
        duration == ev_end.utc - ev_start.utc
        events == rrule_between(comp.RRULE, ev_start, exdates(comp, zone),
                                timeframe_start, timeframe_end)
        popped == Reverse(events)
    IN [i \in 1..(Len(popped) - 1) |->
            [s |-> popped[i],
             e |-> normalize(plus(popped[i], duration)),
             rec |-> 1]]

RecurringEvent(comp, timeframe_start, timeframe_end, zone) ==
    LET ev_start == get_datetime(comp.DTSTART, zone)
        ev_end == IF comp.DTEND.kind = "none" THEN ev_start
                  ELSE get_datetime(comp.DTEND, zone)
        duration == ev_end.utc - ev_start.utc
        exclude == exdates(comp, zone)
        events == rrule_between(comp.RRULE, ev_start, exclude,
                                timeframe_start, timeframe_end)
        \* __next__ pops from the end of the list
        popped == Reverse(events)
    IN [i \in 1..Len(popped) |->
            [s |-> popped[i],
             e |-> normalize(plus(popped[i], duration)),
             rec |-> 1]]

\* Mutant: the window test compares the start, not the end, with the
\* window's start
SingleEvent_start_in_window(comp, timeframe_start, timeframe_end, zone, mails) ==
    LET ev_start == get_datetime(comp.DTSTART, zone)
        ev_end == IF comp.DTEND.kind # "none"
                  THEN get_datetime(comp.DTEND, zone)
                  ELSE IF comp.DURATION.kind # "none"
                       THEN plus(ev_start, comp.DURATION.v)
                       ELSE ev_start
    IN IF ev_start.utc < timeframe_end /\ ev_start.utc > timeframe_start
       THEN LET kept == filter_events(<<ev_start>>, comp, zone, mails)
            IN [i \in 1..Len(kept) |-> [s |-> kept[i], e |-> ev_end, rec |-> 0]]
       ELSE <<>>

SingleEvent(comp, timeframe_start, timeframe_end, zone, mails) ==
    LET ev_start == get_datetime(comp.DTSTART, zone)
        ev_end == IF comp.DTEND.kind # "none"
                  THEN get_datetime(comp.DTEND, zone)
                  ELSE IF comp.DURATION.kind # "none"
                       THEN plus(ev_start, comp.DURATION.v)
                       ELSE ev_start
    IN IF ev_start.utc < timeframe_end /\ ev_end.utc > timeframe_start
       THEN LET kept == filter_events(<<ev_start>>, comp, zone, mails)
            IN [i \in 1..Len(kept) |-> [s |-> kept[i], e |-> ev_end, rec |-> 0]]
       ELSE <<>>

\* Mutant: no try/except around rrulestr, an unparsable rule raises
generate_events_rrule_raises(comp, timeframe_start, timeframe_end, zone, mails) ==
    IF comp.name # "VEVENT" THEN [raised |-> FALSE, events |-> <<>>]
    ELSE IF comp.DTSTART.kind = "none" \/ comp.RRULE.kind = "bad"
         THEN [raised |-> TRUE, events |-> <<>>]
    ELSE IF comp.RRULE.kind # "none"
         THEN [raised |-> FALSE,
               events |-> RecurringEvent(comp, timeframe_start, timeframe_end, zone)]
         ELSE [raised |-> FALSE,
               events |-> SingleEvent(comp, timeframe_start, timeframe_end,
                                      zone, mails)]

\* The result of generate_events and of building the iterator:
\* raised is TRUE when comp['DTSTART'] raises KeyError.
generate_events(comp, timeframe_start, timeframe_end, zone, mails) ==
    IF comp.name # "VEVENT" THEN [raised |-> FALSE, events |-> <<>>]
    ELSE IF comp.DTSTART.kind = "none" THEN [raised |-> TRUE, events |-> <<>>]
    ELSE IF comp.RRULE.kind # "none"
         THEN [raised |-> FALSE,
               events |-> RecurringEvent(comp, timeframe_start, timeframe_end, zone)]
         ELSE [raised |-> FALSE,
               events |-> SingleEvent(comp, timeframe_start, timeframe_end,
                                      zone, mails)]

\* line 117: the diagnostic printed when rrulestr raises
rrule_diagnostics(comp) ==
    IF /\ comp.name = "VEVENT"
       /\ comp.DTSTART.kind # "none"
       /\ comp.RRULE.kind = "bad"
    THEN <<"Could not decode RRULE">>
    ELSE <<>>

----------------------------------------------------------------------------
(* Convertor.__call__: the headline, lines 203-214 *)

\* Python truthiness of a text that is None (Absent) or a string
Truthy(text) == text # Absent /\ text # ""

\* TRUE when line 214 raises TypeError: summary is None and location is a
\* non-empty text
header_raises(comp) == comp.SUMMARY = Absent /\ Truthy(comp.LOCATION)

\* The headline text as the pair <<summary, appended location>>
header(comp, incl) ==
    IF ~Truthy(comp.SUMMARY) /\ ~Truthy(comp.LOCATION)
    THEN <<"(No title)", Absent>>
    ELSE IF Truthy(comp.LOCATION) /\ incl
         THEN <<comp.SUMMARY, comp.LOCATION>>
         ELSE <<comp.SUMMARY, Absent>>

\* line 223: comp.get('UID', '**NOID**')
uid_of(comp) == IF comp.UID = Absent THEN "**NOID**" ELSE comp.UID

Line(tag, val) == [tag |-> tag, val |-> val]

\* lines 241-243: a list of attendees gives one line each; a single ATTENDEE
\* property is a string, which the loop iterates (entry "chars")
attendee_lines(comp) ==
    IF Len(comp.ATTENDEE) = 1
    THEN <<Line("ATTENDEE", <<"chars", comp.ATTENDEE[1].cn>>)>>
    ELSE [i \in 1..Len(comp.ATTENDEE) |->
            Line("ATTENDEE", <<"address", comp.ATTENDEE[i].cn>>)]

\* Mutant: the exclusive end date of an all-day event printed as it is
range_line_exclusive_end(comp, comp_start, comp_end, zone) ==
    IF comp.DTSTART.kind # "date"
    THEN Line("range", [allday |-> FALSE,
                        from |-> org_datetime(comp_start, zone),
                        to |-> org_datetime(comp_end, zone)])
    ELSE Line("range", [allday |-> TRUE,
                        from |-> org_date(comp_start, UTCZone),
                        to |-> org_date(comp_end, UTCZone)])

\* lines 249-256: the timestamp range line
range_line(comp, comp_start, comp_end, zone) ==
    IF comp.DTSTART.kind # "date"
    THEN Line("range", [allday |-> FALSE,
                        from |-> org_datetime(comp_start, zone),
                        to |-> org_datetime(comp_end, zone)])
    ELSE Line("range", [allday |-> TRUE,
                        from |-> org_date(comp_start, UTCZone),
                        to |-> org_date(plus(comp_end, 0 - SecPerDay), UTCZone)])

\* lines 231-239: what is written before comp['DTSTAMP'] is read
record_head(comp, title, ev, zone) ==
    << Line("head", [title |-> title, recurring |-> ev.rec = 1]),
       Line("ICALCONTENTS", <<>>),
       Line("ORGUID", generate_id(ev.s, ev.e, uid_of(comp), zone)),
       Line("ORIGINAL-UID", uid_of(comp)),
       Line("DTSTART", format_datetime(ev.s, zone)),
       Line("DTEND", format_datetime(ev.e, zone)) >>

\* line 240: comp['DTSTAMP'] raises KeyError when the property is missing,
\* and a DATE value has no astimezone (AttributeError)
dtstamp_raises(comp) == comp.DTSTAMP.kind \in {"none", "date"}

\* line 240: format_datetime(comp['DTSTAMP'].dt, tz), of a UTC or a floating
\* date-time
dtstamp_text(comp, zone, local) ==
    IF comp.DTSTAMP.kind = "naive"
    THEN strftime_datetime(naive_astimezone(comp.DTSTAMP.v, local, zone))
    ELSE format_datetime(Aware(comp.DTSTAMP.v, UTCZone), zone)

\* lines 240-260: the rest of the record
record_tail(comp, ev, zone, local) ==
    << Line("DTSTAMP", dtstamp_text(comp, zone, local)) >>
    \o attendee_lines(comp)
    \o (IF comp.ORGANIZER # Absent
        THEN <<Line("ORGANIZER", comp.ORGANIZER)>> ELSE <<>>)
    \o (IF comp.RRULE.kind # "none"
        THEN <<Line("RRULE", comp.RRULE)>> ELSE <<>>)
    \o << Line("END", <<>>), range_line(comp, ev.s, ev.e, zone) >>
    \o (IF Truthy(comp.DESCRIPTION)
        THEN <<Line("Description", comp.DESCRIPTION)>> ELSE <<>>)
    \o << Line("blank", <<>>) >>

----------------------------------------------------------------------------
(* Inputs *)

Day1 == SecPerDay
Morning == Day1 + 9 * Hour          \* 09:00 of day 1

Attendees ==
    { <<>>,
      <<[cn |-> "me", partstat |-> "DECLINED"]>>,
      <<[cn |-> "other", partstat |-> "DECLINED"],
        [cn |-> "me", partstat |-> "ACCEPTED"]>>,
      <<[cn |-> "other", partstat |-> "ACCEPTED"],
        [cn |-> "me", partstat |-> "DECLINED"]>> }

Rules == {NoRule, BadRule}
         \cup {Daily(i, c) : i \in 1..MaxInterval, c \in 0..MaxCount}

Starts == {Date(d) : d \in 1..MaxDay}
          \cup {Naive(Morning), AwareZ(Morning), AwareZ(Morning + 30)}

Ends == {None, Date(3), AwareZ(Morning + Hour), AwareZ(Morning - Hour)}

Exdates == {{}, {Date(2)}, {AwareZ(Morning)}, {AwareZ(Morning + SecPerDay)},
            {Naive(Morning), Date(1)}}

\* A timed one-hour event of day 1 with every optional property absent
Base ==
    [name |-> "VEVENT", DTSTART |-> AwareZ(Morning),
     DTEND |-> AwareZ(Morning + Hour), DURATION |-> None, RRULE |-> NoRule,
     EXDATE |-> {}, ATTENDEE |-> <<>>, UID |-> "a", SUMMARY |-> "S",
     LOCATION |-> Absent, DESCRIPTION |-> Absent, ORGANIZER |-> Absent,
     DTSTAMP |-> AwareZ(0)]

\* The components the generators are applied to: every combination of the
\* properties they read
GenComps ==
    { [Base EXCEPT !.DTSTART = s, !.DTEND = e, !.DURATION = d, !.RRULE = r,
                   !.EXDATE = x, !.ATTENDEE = a] :
        s \in Starts, e \in Ends, d \in {None, Delta(Hour)}, r \in Rules,
        x \in Exdates, a \in Attendees }

\* The container component cal.walk() yields first
VCalendar ==
    [Base EXCEPT !.name = "VCALENDAR", !.DTSTART = None, !.DTEND = None,
                 !.UID = Absent, !.SUMMARY = Absent, !.DTSTAMP = None]

\* The components of a calendar in a conversion run
RunComps ==
    { VCalendar,
      Base,
      [Base EXCEPT !.UID = "b"],
      \* neither UID nor SUMMARY, LOCATION and DESCRIPTION present but empty
      [Base EXCEPT !.UID = Absent, !.SUMMARY = Absent, !.LOCATION = "",
                   !.DESCRIPTION = ""],
      \* starts within the same minute as Base
      [Base EXCEPT !.DTSTART = AwareZ(Morning + 30)],
      [Base EXCEPT !.DTSTART = None],
      [Base EXCEPT !.DTSTAMP = None],
      [Base EXCEPT !.SUMMARY = Absent, !.LOCATION = "L"],
      \* floating times
      [Base EXCEPT !.DTSTART = Naive(Morning), !.DTEND = Naive(Morning + Hour),
                   !.DTSTAMP = Naive(0)],
      [Base EXCEPT !.DTSTART = Naive(Morning), !.DTEND = None,
                   !.RRULE = Daily(1, 1)],
      \* an empty SUMMARY, a DTSTAMP that is a DATE
      [Base EXCEPT !.SUMMARY = "", !.LOCATION = "L", !.DTSTAMP = Date(0)],
      [Base EXCEPT !.LOCATION = "L", !.DESCRIPTION = "D", !.ORGANIZER = "O",
                   !.ATTENDEE = <<[cn |-> "me", partstat |-> "DECLINED"]>>],
      [Base EXCEPT !.RRULE = BadRule],
      [Base EXCEPT !.RRULE = Daily(1, 0),
                   !.EXDATE = {AwareZ(Morning + SecPerDay)},
                   !.ATTENDEE = <<[cn |-> "other", partstat |-> "DECLINED"],
                                  [cn |-> "me", partstat |-> "DECLINED"]>>],
      [Base EXCEPT !.RRULE = Daily(2, 0), !.DTSTART = Date(1),
                   !.DTEND = Date(3)] }
    \* all-day events: with no DTEND, and of two days
    \cup { [Base EXCEPT !.DTSTART = Date(1),
                        !.DTEND = IF k = 0 THEN None ELSE Date(1 + k)] :
             k \in {0, 2} }

\* now = datetime.now(utc)
Nows == {2 * SecPerDay, Morning + SecPerDay}

EmailSets == {{}, {"me"}}

NoComp == [Base EXCEPT !.name = "<none>"]
NoResult == [raised |-> FALSE, events |-> <<>>]

----------------------------------------------------------------------------
(* Convertor.__call__ *)

\* the command line: -t, -m, -d and the clock read at line 198
Config(Days) ==
    /\ tz \in Zones
    /\ emails \in EmailSets
    /\ \E now \in Nows, days \in Days :
          /\ start = now - days * SecPerDay
          /\ end = now + days * SecPerDay

Init ==
    /\ Config({0, MaxWinDays})
    /\ localzone \in LocalZones
    /\ include_location \in BOOLEAN
    /\ pc = "loop"
    /\ n = 0
    /\ cur = NoComp
    /\ summary = <<Absent, Absent>>
    /\ pending = <<>>
    /\ gen = NoResult
    /\ hashes = <<>>
    /\ out = <<>>
    /\ diag = <<>>
    /\ log = <<>>

config == <<tz, localzone, emails, include_location, start, end>>

\* what generate_events prints for the k-th component
printed(comp, k) ==
    [i \in 1..Len(rrule_diagnostics(comp)) |->
        [n |-> k, msg |-> rrule_diagnostics(comp)[i]]]

\* lines 192-196: Calendar.from_ical raises ValueError on a text that is not
\* a calendar, re-raised as IcalError before any component is taken
ParseFails ==
    /\ pc = "loop"
    /\ n = 0
    /\ pc' = "IcalError"
    /\ UNCHANGED <<config, n, cur, summary, pending, gen, hashes, out, diag, log>>

after_events(evs) == IF evs = <<>> THEN "loop" ELSE "emit"

\* lines 203-214 raise TypeError, outside the try block of line 220
ComponentHeaderFails ==
    /\ pc = "loop"
    /\ n < MaxComps
    /\ \E comp \in RunComps :
          /\ header_raises(comp)
          /\ cur' = comp
    /\ n' = n + 1
    /\ pc' = "TypeError"
    /\ UNCHANGED <<config, summary, pending, gen, hashes, out, diag, log>>

\* line 221 raises inside the try block: lines 261-263 raise IcalError
ComponentGenerateFails ==
    /\ pc = "loop"
    /\ n < MaxComps
    /\ \E comp \in RunComps :
          /\ ~header_raises(comp)
          /\ generate_events(comp, start, end, tz, emails).raised
          /\ cur' = comp
          /\ summary' = header(comp, include_location)
          /\ gen' = generate_events(comp, start, end, tz, emails)
    /\ n' = n + 1
    /\ pc' = "IcalError"
    /\ UNCHANGED <<config, pending, hashes, out, diag, log>>

\* lines 201-222: the next component, its headline and its occurrences
ComponentBegin ==
    /\ pc = "loop"
    /\ n < MaxComps
    /\ \E comp \in RunComps :
          LET res == generate_events(comp, start, end, tz, emails) IN
          /\ ~header_raises(comp)
          /\ ~res.raised
          /\ cur' = comp
          /\ summary' = header(comp, include_location)
          /\ gen' = res
          /\ pending' = res.events
          /\ diag' = diag \o printed(comp, n + 1)
          /\ pc' = after_events(res.events)
    /\ n' = n + 1
    /\ UNCHANGED <<config, hashes, out, log>>

InHashes(h) == \E i \in 1..Len(hashes) : hashes[i] = h

LogEntry(ev, accepted, rec) ==
    [n |-> n, comp |-> cur, ev |-> ev, accepted |-> accepted, rec |-> rec]

\* lines 222-228: an occurrence whose hash is already registered
EmitDuplicate ==
    /\ pc = "emit"
    /\ pending # <<>>
    /\ LET ev == Head(pending)
           org_uid == generate_id(ev.s, ev.e, uid_of(cur), tz)
       IN /\ InHashes(org_uid)
          /\ log' = Append(log, LogEntry(ev, FALSE, 0))
    /\ pending' = Tail(pending)
    /\ pc' = after_events(Tail(pending))
    /\ UNCHANGED <<config, n, cur, summary, gen, hashes, out, diag>>

\* lines 222-260: a new occurrence is registered and its record written
EmitAccepted ==
    /\ pc = "emit"
    /\ pending # <<>>
    /\ ~dtstamp_raises(cur)
    /\ LET ev == Head(pending)
           org_uid == generate_id(ev.s, ev.e, uid_of(cur), tz)
       IN /\ ~InHashes(org_uid)
          /\ hashes' = Append(hashes, org_uid)
          /\ out' = Append(out, record_head(cur, summary, ev, tz)
                                \o record_tail(cur, ev, tz, localzone))
          /\ log' = Append(log, LogEntry(ev, TRUE, Len(out) + 1))
    /\ pending' = Tail(pending)
    /\ pc' = after_events(Tail(pending))
    /\ UNCHANGED <<config, n, cur, summary, gen, diag>>

\* lines 222-240 and 261-263: line 240 raises after the hash was registered
\* and the first lines of the record were written
EmitFails ==
    /\ pc = "emit"
    /\ pending # <<>>
    /\ dtstamp_raises(cur)
    /\ LET ev == Head(pending)
           org_uid == generate_id(ev.s, ev.e, uid_of(cur), tz)
       IN /\ ~InHashes(org_uid)
          /\ hashes' = Append(hashes, org_uid)
          /\ out' = Append(out, record_head(cur, summary, ev, tz))
          /\ log' = Append(log, LogEntry(ev, TRUE, Len(out) + 1))
    /\ pc' = "IcalError"
    /\ UNCHANGED <<config, n, cur, summary, pending, gen, diag>>

\* cal.walk() is exhausted: __call__ returns
Finish ==
    /\ pc = "loop"
    /\ pc' = "done"
    /\ UNCHANGED <<config, n, cur, summary, pending, gen, hashes, out, diag, log>>

Next ==
    \/ ParseFails
    \/ ComponentHeaderFails
    \/ ComponentGenerateFails
    \/ ComponentBegin
    \/ EmitDuplicate
    \/ EmitAccepted
    \/ EmitFails
    \/ Finish

Spec == Init /\ [][Next]_vars

----------------------------------------------------------------------------
(* generate_events as a function of its arguments *)

InitGen ==
    /\ Config(0..MaxWinDays)
    /\ localzone = UTCZone
    /\ include_location = TRUE
    /\ pc = "input"
    /\ n = 0
    /\ cur \in GenComps
    /\ summary = <<Absent, Absent>>
    /\ pending = <<>>
    /\ gen = NoResult
    /\ hashes = <<>>
    /\ out = <<>>
    /\ diag = <<>>
    /\ log = <<>>

Generate ==
    /\ pc = "input"
    /\ gen' = generate_events(cur, start, end, tz, emails)
    /\ diag' = diag \o printed(cur, n)
    /\ pc' = "generated"
    /\ UNCHANGED <<config, n, cur, summary, pending, hashes, out, log>>

NextGen == Generate

SpecGen == InitGen /\ [][NextGen]_vars

----------------------------------------------------------------------------
(* Claims about the generators, checked under SpecGen *)

Generated == pc = "generated"

Recurring(comp) == comp.RRULE.kind # "none"

\* The resolved start and end of section 4.2 of the specification
ResolvedStart(comp) == get_datetime(comp.DTSTART, tz)

ResolvedEnd(comp) ==
    IF comp.DTEND.kind # "none" THEN get_datetime(comp.DTEND, tz)
    ELSE IF comp.DURATION.kind # "none"
         THEN plus(ResolvedStart(comp), comp.DURATION.v)
         ELSE ResolvedStart(comp)

Starts_of(evs) == {evs[i].s.utc : i \in 1..Len(evs)}

\* C1: a non-recurring VEVENT yields exactly the one occurrence
\* (evStart, evEnd, not recurring) when evStart < window.end, evEnd >
\* window.start and it survives the exception filter (no declined self
\* attendee, start not an excluded instant), and nothing otherwise.
C1_SingleEventOneOrNone ==
    (Generated /\ ~Recurring(cur)) =>
        LET evStart == ResolvedStart(cur)
            evEnd == ResolvedEnd(cur)
            survives == /\ ~declined(cur, emails)
                        /\ evStart.utc \notin exdates(cur, tz)
        IN /\ ~gen.raised
           /\ Len(gen.events) <= 1
           /\ IF evStart.utc < end /\ evEnd.utc > start /\ survives
              THEN gen.events = <<[s |-> evStart, e |-> evEnd, rec |-> 0]>>
              ELSE gen.events = <<>>

\* A non-recurring component with a DURATION and no DTEND whose occurrence is
\* yielded although it has exclusion instants and attendees
C1_Witness ==
    /\ Generated
    /\ ~Recurring(cur)
    /\ cur.DTEND.kind = "none"
    /\ cur.DURATION.kind # "none"
    /\ cur.EXDATE # {}
    /\ cur.ATTENDEE # <<>>
    /\ Len(gen.events) = 1

\* C2: every start yielded for a recurring component lies in
\* [window.start, window.end), none equals a normalized exclusion instant,
\* and no two yielded occurrences have the same start.
C2_RecurringStartsSafe ==
    (Generated /\ Recurring(cur)) =>
        /\ \A i \in 1..Len(gen.events) :
              /\ start <= gen.events[i].s.utc
              /\ gen.events[i].s.utc < end
              /\ gen.events[i].s.utc \notin exdates(cur, tz)
        /\ \A i, j \in 1..Len(gen.events) :
              gen.events[i].s.utc = gen.events[j].s.utc => i = j

\* Two occurrences are yielded around an excluded instant of the rule
C2_Witness ==
    /\ Generated
    /\ Recurring(cur)
    /\ Len(gen.events) >= 2
    /\ \E x \in exdates(cur, tz) :
          /\ start < x /\ x < end
          /\ \E i, j \in 1..Len(gen.events) :
                gen.events[i].s.utc < x /\ x < gen.events[j].s.utc

\* C3 (as claimed): a component with a declined self attendee yields no
\* occurrence, recurring or not.
C3_DeclinedYieldsNothing ==
    (Generated /\ declined(cur, emails)) => gen.events = <<>>

\* The candidate instants of a parsable rule anchored at evStart
MaxK == MaxWinDays + 3

Candidates(comp) ==
    { ResolvedStart(comp).utc + k * comp.RRULE.interval * SecPerDay :
        k \in { j \in 0..MaxK : comp.RRULE.count = 0 \/ j < comp.RRULE.count } }

\* C6 (as claimed): every candidate c with window.start <= c < window.end
\* that is not excluded is yielded.
C6_EveryCandidateFromWindowStart ==
    (Generated /\ cur.RRULE.kind = "daily") =>
        \A c \in Candidates(cur) :
            (start <= c /\ c < end /\ c \notin exdates(cur, tz))
                => c \in Starts_of(gen.events)

\* C6 (amended): every candidate c with window.start < c < window.end that
\* is not excluded is yielded; a candidate at window.start itself is not.
C6_EveryCandidateAfterWindowStart ==
    (Generated /\ cur.RRULE.kind = "daily") =>
        /\ \A c \in Candidates(cur) :
              (start < c /\ c < end /\ c \notin exdates(cur, tz))
                  => c \in Starts_of(gen.events)
        /\ start \notin Starts_of(gen.events)

\* A daily rule with its second day excluded: the days before and after it
\* are yielded, and the window holds three candidates
C6_Witness ==
    /\ Generated
    /\ cur.RRULE = Daily(1, 0)
    /\ LET s0 == ResolvedStart(cur).utc IN
       /\ start < s0
       /\ s0 + 2 * SecPerDay < end
       /\ exdates(cur, tz) = {s0 + SecPerDay}
       /\ Starts_of(gen.events) = {s0, s0 + 2 * SecPerDay}

\* C9 (as claimed): the recurring variant resolves the end as the single
\* variant does (DTEND, else start + DURATION, else start), and each
\* occurrence is (c, c + (evEnd - evStart), recurring).
C9_RecurringEndLikeSingle ==
    (Generated /\ Recurring(cur)) =>
        \A i \in 1..Len(gen.events) :
            /\ gen.events[i].rec = 1
            /\ gen.events[i].e.utc - gen.events[i].s.utc
                 = ResolvedEnd(cur).utc - ResolvedStart(cur).utc

----------------------------------------------------------------------------
(* Claims about a conversion run, checked under Spec *)

\* The (local formatted start, local formatted end, original id) of an
\* occurrence that reached the emitter
Triple(l) ==
    <<format_datetime(l.ev.s, tz), format_datetime(l.ev.e, tz), uid_of(l.comp)>>

AcceptedEntries == {i \in 1..Len(log) : log[i].accepted}

HasLine(rec, tag) == \E i \in 1..Len(out[rec]) : out[rec][i].tag = tag

LineOf(rec, tag) ==
    out[rec][CHOOSE i \in 1..Len(out[rec]) : out[rec][i].tag = tag].val

\* C4: an occurrence reaching the emitter is accepted (registered and
\* written) iff no earlier occurrence of the run had the same (formatted
\* start, formatted end, original id or **NOID**); duplicates write nothing.
C4_AcceptedIffFirstOfTriple ==
    /\ \A i \in 1..Len(log) :
          /\ log[i].accepted <=>
                (\A j \in 1..(i - 1) : Triple(log[j]) # Triple(log[i]))
          /\ log[i].accepted =>
                /\ log[i].rec \in 1..Len(out)
                /\ LineOf(log[i].rec, "ORIGINAL-UID") = uid_of(log[i].comp)
                /\ LineOf(log[i].rec, "DTSTART") = Triple(log[i])[1]
                /\ LineOf(log[i].rec, "DTEND") = Triple(log[i])[2]
          /\ ~log[i].accepted => log[i].rec = 0
    /\ Len(out) = Cardinality(AcceptedEntries)
    /\ Len(hashes) = Cardinality(AcceptedEntries)

\* Two components give the same triple from different instants (seconds are
\* not printed): the second is a duplicate and nothing is written for it
C4_Witness ==
    \E i, j \in 1..Len(log) :
        /\ i < j
        /\ log[i].n # log[j].n
        /\ log[i].ev.s.utc # log[j].ev.s.utc
        /\ Triple(log[i]) = Triple(log[j])
        /\ log[i].accepted
        /\ ~log[j].accepted
        /\ Len(out) = 1

BadRuleComp(c) ==
    /\ c.name = "VEVENT"
    /\ c.RRULE.kind = "bad"
    /\ c.DTSTART.kind # "none"
    /\ ~header_raises(c)

\* C5: a component whose rule does not parse raises nothing, yields no
\* occurrence, leaves a diagnostic, and the loop goes on to the next
\* component, all of whose occurrences then reach the emitter.
C5_BadRuleIsNotFatal ==
    /\ (n >= 1 /\ BadRuleComp(cur)) =>
          /\ pc \in {"loop", "done"}
          /\ gen = [raised |-> FALSE, events |-> <<>>]
          /\ diag # <<>>
          /\ diag[Len(diag)] = [n |-> n, msg |-> "Could not decode RRULE"]
          /\ (pc = "loop" /\ n < MaxComps) => ENABLED ComponentBegin
    /\ ((\E d \in 1..Len(diag) : diag[d].n < n) /\ pc \in {"loop", "done"}) =>
          \A i \in 1..Len(gen.events) :
              \E k \in 1..Len(log) :
                  /\ log[k].n = n
                  /\ log[k].ev = gen.events[i]
                  /\ log[k].accepted => HasLine(log[k].rec, "range")

\* After a component with an unparsable rule, a later component's
\* occurrence was written and the run ended normally
C5_Witness ==
    /\ pc = "done"
    /\ \E d \in 1..Len(diag) : \E k \in 1..Len(log) :
          /\ diag[d].n < log[k].n
          /\ log[k].accepted
          /\ HasLine(log[k].rec, "range")

AllDayWithEnd(c) == c.DTSTART.kind = "date" /\ c.DTEND.kind = "date"

Written == {i \in AcceptedEntries : HasLine(log[i].rec, "range")}

\* C7 (as claimed): every record of an all-day component with exclusive end
\* date E has a date-only range from the component's start date to E - 1.
C7_AllDayRangeOfComponent ==
    \A i \in Written :
        AllDayWithEnd(log[i].comp) =>
            LET r == LineOf(log[i].rec, "range") IN
            /\ r.allday
            /\ r.from.day = log[i].comp.DTSTART.v
            /\ r.to.day = log[i].comp.DTEND.v - 1

\* C7 (amended): the range is date-only, from the occurrence's start date to
\* the occurrence's exclusive end date minus one day, whatever the target
\* timezone; for a non-recurring component these are the component's start
\* date and E - 1.
C7_AllDayRangeOfOccurrence ==
    \A i \in Written :
        AllDayWithEnd(log[i].comp) =>
            LET r == LineOf(log[i].rec, "range")
                c == log[i].comp
            IN /\ r.allday
               /\ r.from.day * SecPerDay = log[i].ev.s.utc
               /\ (r.to.day + 1) * SecPerDay = log[i].ev.e.utc
               /\ r.to.day - r.from.day = c.DTEND.v - c.DTSTART.v - 1
               /\ ~Recurring(c) =>
                     /\ r.from.day = c.DTSTART.v
                     /\ r.to.day = c.DTEND.v - 1

\* An all-day component spanning D..D+2 was written under a target timezone
\* west of Greenwich
C7_Witness ==
    \E i \in Written :
        /\ AllDayWithEnd(log[i].comp)
        /\ log[i].comp.DTEND.v = log[i].comp.DTSTART.v + 2
        /\ tz = WestZone
        /\ LineOf(log[i].rec, "range").to.day = log[i].comp.DTSTART.v + 1

Failed == pc \in {"IcalError", "TypeError"}

\* C8 (as claimed): whenever the processing of a component fails, the run
\* ends with IcalError and no later component is processed.
C8_FailureIsIcalError ==
    Failed => (pc = "IcalError" /\ ~ENABLED Next)

NotEarlier(a, b, allday) ==
    IF allday THEN a.day >= b.day
    ELSE a.day > b.day \/ (a.day = b.day /\ a.hm >= b.hm)

\* C10 (as claimed): for a component whose end, when given, is not before
\* its start, the end of the written range is not earlier than its start.
C10_RangeEndNotBeforeStart ==
    \A i \in Written :
        LET c == log[i].comp
            r == LineOf(log[i].rec, "range")
        IN (c.DTEND.kind = "none"
              \/ get_datetime(c.DTEND, tz).utc >= get_datetime(c.DTSTART, tz).utc)
           => NotEarlier(r.to, r.from, r.allday)

====
